---- MODULE Spec2Model ----
(***************************************************************************)
(* Model of pipelinerl/finetune/logging_.py: init_wandb, setup_logging,    *)
(* log_metrics and flatten_dict_config.                                    *)
(*                                                                         *)
(* Python strings are TLA+ strings (Len, \o and SubSeq act on them as on   *)
(* Python's len, + and slicing).  A Python scalar is a record tagged with  *)
(* its type; a dict is a sequence of <<key, value>> pairs with distinct    *)
(* keys, in insertion order.                                               *)
(***************************************************************************)
EXTENDS Integers, Sequences, FiniteSets, TLC

\* ------------------------------------------------------------------ bounds
NumProcs == 2        \* worker processes of the job, process_index 0..NumProcs-1
MaxCalls == 2        \* log_metrics calls of the job
MaxDepth == 2        \* nesting depth of the generated mappings
MaxOver == 1         \* how far past the limit the long run names go

\* --------------------------------------------------------- python values
PyNone == [type |-> "NoneType"]
PyInt(n) == [type |-> "int", n |-> n]
PyBool(b) == [type |-> "bool", b |-> b]
\* a finite float x: neg is its sign, tenk the whole part of |x| * 10000, and
\* exact says that |x| * 10000 is tenk itself (0.5 is 5000 exactly; the float
\* 0.0025 lies just above 25, the float 0.1235 just below 1235)
PyFloat(neg, tenk, exact) ==
    [type |-> "float", neg |-> neg, tenk |-> tenk, exact |-> exact]
\* a finite decimal.Decimal, described the same way
PyDecimal(neg, tenk, exact) ==
    [type |-> "Decimal", neg |-> neg, tenk |-> tenk, exact |-> exact]
PyStr(s) == [type |-> "str", s |-> s]
PyDict(items) == [type |-> "dict", items |-> items]

Min(a, b) == IF a < b THEN a ELSE b

\* s[:n]
Prefix(s, n) == SubSeq(s, 1, Min(n, Len(s)))

\* s[n:]
Suffix(s, n) == SubSeq(s, n + 1, Len(s))

\* s.startswith(t)
StartsWith(s, t) == Len(t) <= Len(s) /\ SubSeq(s, 1, Len(t)) = t

\* s.replace(old, new) for a one-character old, by halves
RECURSIVE Replace(_, _, _)
Replace(s, old, new) ==
    IF Len(s) = 0 THEN ""
    ELSE IF Len(s) = 1 THEN (IF s = old THEN new ELSE s)
    ELSE LET h == Len(s) \div 2
         IN  Replace(SubSeq(s, 1, h), old, new) \o Replace(SubSeq(s, h + 1, Len(s)), old, new)

\* ------------------------------------------------------------------ dicts
HasKey(m, k) == \E i \in 1..Len(m) : m[i][1] = k

\* m[k] = v: an existing key keeps its position, a new key goes last
DictSet(m, k, v) ==
    IF HasKey(m, k)
    THEN [i \in 1..Len(m) |-> IF m[i][1] = k THEN <<k, v>> ELSE m[i]]
    ELSE Append(m, <<k, v>>)

\* m.update(other)
RECURSIVE DictUpdate(_, _)
DictUpdate(m, other) ==
    IF other = <<>> THEN m
    ELSE DictUpdate(DictSet(m, Head(other)[1], Head(other)[2]), Tail(other))

\* ---------------------------------------------------- flatten_dict_config
DefaultSeparator == "."

\* the nested call passes no separator: it runs with the default
NestedSeparator(separator) == DefaultSeparator

RECURSIVE flatten_dict_config(_, _)
RECURSIVE FlattenLoop(_, _, _, _)
RECURSIVE FlattenSub(_, _, _, _)
RECURSIVE FlattenSubNoParent(_, _, _, _)

\* a flattening that forgets the parent key
FlattenSubNoParent(result, k, separator, sub) ==
    IF sub = <<>> THEN result
    ELSE FlattenSubNoParent(DictSet(result, Head(sub)[1], Head(sub)[2]),
                            k, separator, Tail(sub))

\* for sub_k, sub_v in sub.items(): result[str(k) + separator + str(sub_k)] = sub_v
FlattenSub(result, k, separator, sub) ==
    IF sub = <<>> THEN result
    ELSE FlattenSub(DictSet(result, k \o separator \o Head(sub)[1], Head(sub)[2]),
                    k, separator, Tail(sub))

\* for k, v in d.items(): ...   from item i on
FlattenLoop(d, separator, i, result) ==
    IF i > Len(d) THEN result
    ELSE LET k == d[i][1]
             v == d[i][2]
         IN  IF v.type = "dict"
             THEN FlattenLoop(d, separator, i + 1,
                      FlattenSub(result, k, separator,
                          flatten_dict_config(v.items, NestedSeparator(separator))))
             ELSE FlattenLoop(d, separator, i + 1, DictSet(result, k, v))

flatten_dict_config(d, separator) == FlattenLoop(d, separator, 1, <<>>)

\* ------------------------------------------------------------- the job
\* wandb limits name to 128 characters
NameLimit == 128

Procs == 0..(NumProcs - 1)

\* get_accelerator().is_main_process: the process of index zero
is_main_process(p) == p = 0

\* get_accelerator().state.__dict__ of process p
AcceleratorState(p) ==
    << <<"process_index", PyInt(p)>>, <<"num_processes", PyInt(NumProcs)>> >>

\* str(v) of a scalar the job holds
StrOf(v) ==
    IF v.type = "str" THEN v.s
    ELSE IF v.type = "int" THEN ToString(v.n)
    ELSE IF v.type = "bool" THEN (IF v.b THEN "True" ELSE "False")
    ELSE "None"

\* {str(k): str(v) for k, v in m.items()}
StrDict(m) == [i \in 1..Len(m) |-> <<m[i][1], PyStr(StrOf(m[i][2]))>>]

\* importlib.metadata.distributions(): name -> version of what is installed
PythonEnv == << <<"wandb", PyStr("0.19")>> >>

VARIABLES
    cfg,            \* cfg.finetune: the fields this file reads
    output_dir,     \* str(output_dir)
    run_arg,        \* setup_logging's run argument: PyNone or a Run
    pc,             \* per process: "start" before setup_logging, then "ready"
    loggerLevel,    \* per process: level of the module's logger
    rootLogging,    \* per process: logging.basicConfig's level and handlers
    libVerbosity,   \* per process: verbosity of datasets and transformers
    run,            \* per process: setup_logging's run when it ends
    logRecords,     \* the logging calls made, in order
    wandbInits,     \* the wandb.init calls made, in order
    wandbLogs,      \* the wandb.log calls made, in order
    infoFile,       \* <output_dir>/wandb_info.json
    infoWriters,    \* the processes that wrote wandb_info.json, in order
    logDirFiles,    \* the files under <output_dir>/log/
    calls,          \* per process: log_metrics calls made
    lastCall,       \* per process: the last call and how it ended
    flat_d,         \* flatten_dict_config's d
    flat_separator, \* flatten_dict_config's separator
    flat_result     \* flatten_dict_config's return value, PyNone before the call

jobVars == <<cfg, output_dir, run_arg, pc, loggerLevel, rootLogging, libVerbosity,
             run, logRecords, wandbInits, wandbLogs, infoFile, infoWriters,
             logDirFiles, calls, lastCall>>
flatVars == <<flat_d, flat_separator, flat_result>>
vars == <<cfg, output_dir, run_arg, pc, loggerLevel, rootLogging, libVerbosity,
          run, logRecords, wandbInits, wandbLogs, infoFile, infoWriters,
          logDirFiles, calls, lastCall, flat_d, flat_separator, flat_result>>

\* ------------------------------------------------------------ init_wandb
LogRecord(loggerName, level, msg) ==
    [logger |-> loggerName, level |-> level, msg |-> msg]

Run(name, entity, project, id) ==
    [type |-> "Run", name |-> name, entity |-> entity, project |-> project, id |-> id]

\* a resume policy that lets "if_not_interactive" through as "allow"
ResumeModeLenient(wandb_resume) ==
    IF wandb_resume \in {"always", "if_not_interactive"} THEN [exc |-> "", resume |-> "allow"]
    ELSE IF wandb_resume = "never" THEN [exc |-> "", resume |-> "never"]
    ELSE [exc |-> "ValueError", resume |-> ""]

\* the resume policy, lines 37-44: the resume mode or the exception raised
ResumeMode(wandb_resume) ==
    IF wandb_resume = "always" THEN [exc |-> "", resume |-> "allow"]
    ELSE IF wandb_resume = "never" THEN [exc |-> "", resume |-> "never"]
    ELSE IF wandb_resume = "if_not_interactive"
         THEN [exc |-> "NotImplementedError", resume |-> ""]
    ELSE [exc |-> "ValueError", resume |-> ""]

\* a prefix test without the "/" after the root
RootMismatchNoSlash(wandb_name, root) == ~StartsWith(wandb_name, root)

\* not wandb_name.startswith(root + "/")
RootMismatch(wandb_name, root) == ~StartsWith(wandb_name, root \o "/")

\* wandb_name, lines 46-51: the name or the exception raised
WandbName(run_dir, root) ==
    IF root # ""
    THEN IF RootMismatch(run_dir, root)
         THEN [exc |-> "ValueError", name |-> ""]
         ELSE [exc |-> "", name |-> Suffix(run_dir, Len(root) + 1)]
    ELSE [exc |-> "", name |-> run_dir]

\* wandb_id, lines 53-55
WandbId(wandb_id, wandb_name) ==
    IF wandb_id = "" THEN Replace(wandb_name, "/", "_") ELSE wandb_id

\* the name argument of wandb.init, line 62
InitName(wandb_name) == Prefix(wandb_name, NameLimit)

InitResult(exc, msg, r, inits, logs) ==
    [exc |-> exc, msg |-> msg, run |-> r, inits |-> inits, logs |-> logs]

\* init_wandb with a dict for config_for_wandb; service is what wandb.init does:
\* "run" returns a Run, "raise" raises, "other" returns something that is no Run
init_wandb(c, run_dir, config_for_wandb, service) ==
    LET config == DictSet(config_for_wandb, "python_env", PyDict(PythonEnv))
        mode == ResumeMode(c.wandb_resume)
        named == WandbName(run_dir, c.wandb_workspace_root)
        wandb_name == named.name
        wandb_id == WandbId(c.wandb_id, wandb_name)
        warn == IF Len(wandb_name) > NameLimit
                THEN << LogRecord("logger", "WARNING",
                          "wandb_name: " \o wandb_name \o " is longer than "
                          \o ToString(NameLimit) \o " characters. Truncating to "
                          \o ToString(NameLimit) \o " characters.") >>
                ELSE <<>>
        info == LogRecord("root", "INFO",
                    "Initializing W&B with\nname: " \o InitName(wandb_name)
                    \o "\nid: " \o wandb_id \o "\nresume: " \o mode.resume)
        call == [name |-> InitName(wandb_name),
                 entity |-> c.wandb_entity_name,
                 project |-> c.wandb_project_name,
                 group |-> c.wandb_group,
                 dir |-> c.wandb_dir,
                 config |-> config,
                 resume |-> mode.resume,
                 id |-> wandb_id,
                 tags |-> c.tags,
                 service |-> service]
    IN  IF mode.exc = "NotImplementedError"
        THEN InitResult("NotImplementedError", "", PyNone, <<>>, <<>>)
        ELSE IF mode.exc = "ValueError"
        THEN InitResult("ValueError",
                 "Unknown value for wandb_resume: " \o c.wandb_resume, PyNone, <<>>, <<>>)
        ELSE IF named.exc = "ValueError"
        THEN InitResult("ValueError",
                 "run_dir " \o run_dir \o " does not start with root "
                 \o c.wandb_workspace_root, PyNone, <<>>, <<>>)
        ELSE IF service = "raise"
        THEN InitResult("Error", "wandb.init raised", PyNone, <<call>>,
                        warn \o <<info>>)
        ELSE IF service = "other"
        THEN InitResult("ValueError", "W&B init failed", PyNone, <<call>>,
                        warn \o <<info>>)
        ELSE InitResult("", "",
                 Run(call.name, call.entity, call.project, call.id), <<call>>,
                 warn \o <<info>>)

\* --------------------------------------------------------- setup_logging
\* cfg as the nested mapping flatten_dict_config walks
CfgMapping(c) ==
    << <<"finetune", PyDict(<<
           <<"wandb_resume", PyStr(c.wandb_resume)>>,
           <<"wandb_workspace_root", PyStr(c.wandb_workspace_root)>>,
           <<"wandb_id", PyStr(c.wandb_id)>>,
           <<"use_wandb", PyBool(c.use_wandb)>>,
           <<"wandb_entity_name", PyStr(c.wandb_entity_name)>>,
           <<"wandb_project_name", PyStr(c.wandb_project_name)>>,
           <<"wandb_group", PyStr(c.wandb_group)>>,
           <<"wandb_dir", PyStr(c.wandb_dir)>>,
           <<"tags", PyStr(c.tags)>> >>)>> >>

LogFileName(p) == "info_" \o ToString(p) \o ".log"

\* a summary that is written with empty fields when there is no run
WandbConfigNoCheck(r) ==
    IF r # PyNone
    THEN << <<"name", Prefix(r.name, NameLimit)>>, <<"entity", r.entity>>,
            <<"project", r.project>>, <<"id", r.id>> >>
    ELSE << <<"name", "">>, <<"entity", "">>, <<"project", "">>, <<"id", "">> >>

\* wandb_config, lines 101-108
WandbConfig(r) ==
    IF r # PyNone
    THEN << <<"name", Prefix(r.name, NameLimit)>>, <<"entity", r.entity>>,
            <<"project", r.project>>, <<"id", r.id>> >>
    ELSE <<>>

\* run is None and cfg.finetune.use_wandb, line 94
WantsInit(r, c) == r = PyNone /\ c.use_wandb

\* a setup that every process runs in full
SetsUpRunAll(p) == TRUE

\* the process that may set the run up, line 89
SetsUpRun(p) == is_main_process(p)

WithProc(p, records) == [i \in 1..Len(records) |-> [proc |-> p, rec |-> records[i]]]

setup_logging(p, service) ==
    /\ pc[p] = "start"
    /\ LET main == SetsUpRun(p)
           tryInit == main /\ WantsInit(run_arg, cfg)
           config_for_wandb ==
               DictUpdate(StrDict(AcceleratorState(p)),
                          flatten_dict_config(CfgMapping(cfg), DefaultSeparator))
           res == init_wandb(cfg, output_dir, config_for_wandb, service)
           r == IF tryInit THEN res.run ELSE run_arg
           warning == IF res.exc # ""
                      THEN << LogRecord("logger", "WARNING",
                                 "Failed to initalize wandb: " \o res.msg) >>
                      ELSE <<>>
       IN  /\ tryInit \/ service = "run"
           /\ logDirFiles' = logDirFiles \cup {LogFileName(p)}
           /\ rootLogging' = [rootLogging EXCEPT ![p] =
                  [level |-> "INFO", handlers |-> <<LogFileName(p), "stream">>]]
           /\ loggerLevel' = [loggerLevel EXCEPT ![p] = IF main THEN "INFO" ELSE "ERROR"]
           /\ run' = [run EXCEPT ![p] = r]
           /\ IF tryInit
              THEN /\ wandbInits' = wandbInits \o WithProc(p, res.inits)
                   /\ logRecords' = logRecords \o WithProc(p, res.logs \o warning)
              ELSE UNCHANGED <<wandbInits, logRecords>>
           /\ IF main
              THEN /\ infoFile' = [exists |-> TRUE, content |-> WandbConfig(r)]
                   /\ infoWriters' = Append(infoWriters, p)
              ELSE UNCHANGED <<infoFile, infoWriters>>
    /\ libVerbosity' = [libVerbosity EXCEPT ![p] = "ERROR"]
    /\ pc' = [pc EXCEPT ![p] = "ready"]
    /\ lastCall' = [lastCall EXCEPT ![p] = [op |-> "setup_logging", exc |-> ""]]
    /\ UNCHANGED <<cfg, output_dir, run_arg, wandbLogs, calls>>
    /\ UNCHANGED flatVars

\* ----------------------------------------------------------- log_metrics
\* the three digits after the point
Digits3(n) ==
    IF n < 10 THEN "00" \o ToString(n)
    ELSE IF n < 100 THEN "0" \o ToString(n)
    ELSE ToString(n)

\* |x| rounded to thousandths, for |x| * 10000 in [tenk, tenk + 1): the value
\* itself decides, and only a value that is exactly a half goes to even
RoundMilli(tenk, exact) ==
    LET q == tenk \div 10
        r == tenk % 10
    IN  IF r > 5 \/ (r = 5 /\ (~exact \/ q % 2 = 1)) THEN q + 1 ELSE q

\* whether f"{v:.3f}" is defined for v
Formats(v) == v.type \in {"int", "bool", "float", "Decimal"}

\* the exception f"{v:.3f}" raises otherwise
FormatError(v) == IF v.type = "str" THEN "ValueError" ELSE "TypeError"

\* f"{v:.3f}"
Format3f(v) ==
    IF v.type = "int" THEN ToString(v.n) \o ".000"
    ELSE IF v.type = "bool" THEN (IF v.b THEN "1.000" ELSE "0.000")
    ELSE LET m == RoundMilli(v.tenk, v.exact)
         IN  (IF v.neg THEN "-" ELSE "")
             \o ToString(m \div 1000) \o "." \o Digits3(m % 1000)

\* isinstance(v, (int, float))
IsNumeric(v) == v.type \in {"int", "bool", "float"}

\* {k: v for k, v in metrics.items() if isinstance(v, (int, float))}
NumericOnly(metrics) == SelectSeq(metrics, LAMBDA kv : IsNumeric(kv[2]))

\* {k: f"{v:.3f}" for k, v in metrics.items()}
MetricsPretty(metrics) == [i \in 1..Len(metrics) |-> <<metrics[i][1], Format3f(metrics[i][2])>>]

\* ch in s, for a one-character ch
Contains(s, ch) == \E i \in 1..Len(s) : SubSeq(s, i, i) = ch

\* the quote repr() puts around s: double quotes when s holds ' and no "
ReprQuote(s) == IF Contains(s, "'") /\ ~Contains(s, "\"") THEN "\"" ELSE "'"

\* the body of repr(s) inside the quote q, by halves
RECURSIVE ReprBody(_, _)
ReprBody(s, q) ==
    IF Len(s) = 0 THEN ""
    ELSE IF Len(s) = 1
    THEN IF s = "\\" THEN "\\\\"
         ELSE IF s = "\n" THEN "\\n"
         ELSE IF s = "\t" THEN "\\t"
         ELSE IF s = "\r" THEN "\\r"
         ELSE IF s = q THEN "\\" \o q
         ELSE s
    ELSE LET h == Len(s) \div 2
         IN  ReprBody(SubSeq(s, 1, h), q) \o ReprBody(SubSeq(s, h + 1, Len(s)), q)

\* repr(s) of a str of printable characters, newlines, tabs and returns
StrRepr(s) == ReprQuote(s) \o ReprBody(s, ReprQuote(s)) \o ReprQuote(s)

\* str() of a dict of strings, without the braces
RECURSIVE ReprItems(_)
ReprItems(m) ==
    IF m = <<>> THEN ""
    ELSE StrRepr(Head(m)[1]) \o ": " \o StrRepr(Head(m)[2])
         \o (IF Len(m) > 1 THEN ", " ELSE "") \o ReprItems(Tail(m))

DictRepr(m) == "{" \o ReprItems(m) \o "}"

\* the first value the comprehension of line 123 fails on, 0 when there is none
FirstUnformattable(metrics) ==
    IF \E i \in 1..Len(metrics) : ~Formats(metrics[i][2])
    THEN CHOOSE i \in 1..Len(metrics) :
             /\ ~Formats(metrics[i][2])
             /\ \A j \in 1..(i - 1) : Formats(metrics[j][2])
    ELSE 0

\* a log_metrics without the early return
ReturnsEarlyNever(p) == FALSE

\* the early return of lines 119-120
ReturnsEarly(p) == ~is_main_process(p)

\* what wandb.log is handed, line 126
Forwarded(metrics) == NumericOnly(metrics)

\* a log_metrics that lets the exception of wandb.log through
CatchesLogErrorNot(service) == FALSE

\* whether an exception of wandb.log is caught, lines 125-129
CatchesLogError(service) == TRUE

\* the log_metrics calls made so far by the processes of S
RECURSIVE CallsOf(_)
CallsOf(S) ==
    IF S = {} THEN 0
    ELSE LET p == CHOOSE q \in S : TRUE IN calls[p] + CallsOf(S \ {p})

\* log_metrics; service is what wandb.log does: "ok" returns, "raise" raises
log_metrics(p, completed_steps, metrics, service) ==
    /\ CallsOf(Procs) < MaxCalls
    /\ calls' = [calls EXCEPT ![p] = @ + 1]
    /\ IF ReturnsEarly(p)
       THEN /\ service = "ok"
            /\ lastCall' = [lastCall EXCEPT ![p] = [op |-> "log_metrics", exc |-> ""]]
            /\ UNCHANGED <<logRecords, wandbLogs>>
       ELSE IF FirstUnformattable(metrics) # 0
       THEN /\ service = "ok"
            /\ lastCall' = [lastCall EXCEPT ![p] =
                   [op |-> "log_metrics",
                    exc |-> FormatError(metrics[FirstUnformattable(metrics)][2])]]
            /\ UNCHANGED <<logRecords, wandbLogs>>
       ELSE LET info == LogRecord("arg", "INFO",
                            "Completed steps " \o ToString(completed_steps) \o ": "
                            \o DictRepr(MetricsPretty(metrics)))
                error == LogRecord("arg", "ERROR",
                            "Failed to log metrics to wandb with error: wandb.log raised")
                caught == CatchesLogError(service)
            IN  /\ wandbLogs' = Append(wandbLogs,
                       [proc |-> p, metrics |-> Forwarded(metrics),
                        step |-> completed_steps, service |-> service])
                /\ logRecords' = logRecords \o WithProc(p,
                       <<info>> \o (IF service = "raise" /\ caught THEN <<error>> ELSE <<>>))
                /\ lastCall' = [lastCall EXCEPT ![p] =
                       [op |-> "log_metrics",
                        exc |-> IF service = "raise" /\ ~caught THEN "Error" ELSE ""]]
    /\ UNCHANGED <<cfg, output_dir, run_arg, pc, loggerLevel, rootLogging, libVerbosity,
                   run, wandbInits, infoFile, infoWriters, logDirFiles>>
    /\ UNCHANGED flatVars

\* ------------------------------------------------- flatten_dict_config call
Flatten ==
    /\ flat_result = PyNone
    /\ flat_result' = PyDict(flatten_dict_config(flat_d, flat_separator))
    /\ UNCHANGED <<flat_d, flat_separator>>
    /\ UNCHANGED jobVars

\* ----------------------------------------------------------------- inputs
\* a relative path of n characters, a "/" at every eleventh: the lengths used
\* (122 to 131) end it with a name, as str() of a Path does
Block11 == "xxxxxxxxxx/"
Block44 == Block11 \o Block11 \o Block11 \o Block11
Block176 == Block44 \o Block44 \o Block44 \o Block44
LongPath(n) == SubSeq(Block176, 1, n)

LongLengths == (NameLimit - 1)..(NameLimit + MaxOver)

Resumes == {"always", "never", "if_not_interactive", "sometimes"}
Roots == {"", "/runs", "/runs/"}
Ids == {"", "run-7"}
ShortDirs == {"/runs/x", "/runs", "/other/x", "/runsx/y", "/runs/a/b"}
LongDirs == {"/runs/" \o LongPath(n) : n \in LongLengths}
            \cup {"/" \o LongPath(n - 1) : n \in LongLengths}

GivenRun == Run("given", "team", "rl", "given-id")

Finetune(resume, root, id, use) ==
    [wandb_resume |-> resume, wandb_workspace_root |-> root, wandb_id |-> id,
     use_wandb |-> use, wandb_entity_name |-> "team", wandb_project_name |-> "rl",
     wandb_group |-> "g", wandb_dir |-> "/tmp/wandb", tags |-> "[]"]

\* the (completed_steps, metrics) pairs log_metrics is called with
LogInputs ==
    { <<0, <<>> >>,
      <<0, << <<"loss", PyFloat(FALSE, 1236, FALSE)>> >> >>,
      <<7, << <<"loss", PyFloat(FALSE, 1236, FALSE)>> >> >>,
      <<7, << <<"loss", PyFloat(TRUE, 5000, TRUE)>>, <<"epoch", PyInt(2)>> >> >>,
      <<0, << <<"lr", PyDecimal(FALSE, 25, TRUE)>>, <<"eps", PyFloat(FALSE, 25, FALSE)>>,
              <<"top'1", PyBool(TRUE)>> >> >>,
      <<7, << <<"loss", PyFloat(FALSE, 2500, TRUE)>>, <<"tag", PyStr("abc")>> >> >>,
      <<0, << <<"best", PyNone>>, <<"tag", PyStr("abc")>> >> >> }

FlatKeys == {"a", "b"}
FlatLeaves == {PyInt(1), PyInt(2)}
KeyPairs == {kk \in FlatKeys \X FlatKeys : kk[1] # kk[2]}

LeafMappings ==
    {<<>>}
    \cup {<< <<k, v>> >> : k \in FlatKeys, v \in FlatLeaves}
    \cup {<< <<kk[1], v1>>, <<kk[2], v2>> >> :
             kk \in KeyPairs, v1 \in FlatLeaves, v2 \in FlatLeaves}

\* the mappings nested at most depth levels deep, one nested mapping per level
RECURSIVE Mappings(_)
Mappings(depth) ==
    IF depth = 0 THEN LeafMappings
    ELSE LET inner == {PyDict(m) : m \in Mappings(depth - 1)}
         IN  LeafMappings
             \cup {<< <<k, t>> >> : k \in FlatKeys, t \in inner}
             \cup {<< <<kk[1], t>>, <<kk[2], v>> >> :
                      kk \in KeyPairs, t \in inner, v \in FlatLeaves}
             \cup {<< <<kk[1], v>>, <<kk[2], t>> >> :
                      kk \in KeyPairs, t \in inner, v \in FlatLeaves}

SpecExample ==
    << <<"a", PyDict(<< <<"b", PyInt(1)>>,
                        <<"c", PyDict(<< <<"d", PyInt(2)>> >>)>> >>)>> >>

ExtraMappings ==
    { SpecExample,
      << <<"a.b", PyInt(1)>>, <<"a", PyDict(<< <<"b", PyInt(2)>> >>)>> >>,
      << <<"a", PyDict(<< <<"b", PyInt(2)>> >>)>>, <<"a.b", PyInt(1)>> >>,
      << <<"a", PyDict(<< <<"x", PyInt(1)>> >>)>>,
         <<"b", PyDict(<< <<"y", PyDict(<< <<"z", PyInt(2)>> >>)>> >>)>> >> }

FlatInputs == Mappings(MaxDepth) \cup ExtraMappings
Separators == {".", "/", "__"}

\* ---------------------------------------------------------- specifications
JobStart ==
    /\ pc = [p \in Procs |-> "start"]
    /\ loggerLevel = [p \in Procs |-> "NOTSET"]
    /\ rootLogging = [p \in Procs |-> [level |-> "WARNING", handlers |-> <<>>]]
    /\ libVerbosity = [p \in Procs |-> "WARNING"]
    /\ run = [p \in Procs |-> PyNone]
    /\ logRecords = <<>>
    /\ wandbInits = <<>>
    /\ wandbLogs = <<>>
    /\ infoFile = [exists |-> FALSE, content |-> <<>>]
    /\ infoWriters = <<>>
    /\ logDirFiles = {}
    /\ calls = [p \in Procs |-> 0]
    /\ lastCall = [p \in Procs |-> [op |-> "", exc |-> ""]]

FlatIdle ==
    /\ flat_d = <<>>
    /\ flat_separator = DefaultSeparator
    /\ flat_result = PyNone

\* the job: every process sets logging up once and logs metrics step after step
Init ==
    /\ cfg = Finetune("always", "/runs", "", TRUE)
    /\ output_dir = "/runs/x"
    /\ run_arg = PyNone
    /\ JobStart
    /\ FlatIdle

Next ==
    \/ \E p \in Procs, service \in {"run", "raise", "other"} : setup_logging(p, service)
    \/ \E p \in Procs, in \in LogInputs, service \in {"ok", "raise"} :
           log_metrics(p, in[1], in[2], service)

Spec == Init /\ [][Next]_vars

\* startup over every configuration
InitSetup ==
    /\ cfg \in {Finetune(r, root, id, u) :
                   r \in Resumes, root \in Roots, id \in Ids, u \in BOOLEAN}
    /\ output_dir \in ShortDirs \cup LongDirs
    /\ run_arg \in {PyNone, GivenRun}
    /\ JobStart
    /\ FlatIdle

NextSetup ==
    \E p \in Procs, service \in {"run", "raise", "other"} : setup_logging(p, service)

SpecSetup == InitSetup /\ [][NextSetup]_vars

\* flatten_dict_config over the mappings and separators
InitFlatten ==
    /\ cfg = Finetune("always", "", "", FALSE)
    /\ output_dir = "/runs/x"
    /\ run_arg = PyNone
    /\ JobStart
    /\ flat_d \in FlatInputs
    /\ flat_separator \in Separators
    /\ flat_result = PyNone

NextFlatten == Flatten

SpecFlatten == InitFlatten /\ [][NextFlatten]_vars

\* ------------------------------------------------------------ properties
Main == CHOOSE p \in Procs : is_main_process(p)

\* setup_logging has run on p and went through the try of lines 94-99
TriedInit(p) ==
    /\ is_main_process(p)
    /\ pc[p] = "ready"
    /\ run_arg = PyNone
    /\ cfg.use_wandb

\* p logged the warning of line 99
WarnedInitFailure(p) ==
    \E i \in 1..Len(logRecords) :
        /\ logRecords[i].proc = p
        /\ logRecords[i].rec.level = "WARNING"
        /\ StartsWith(logRecords[i].rec.msg, "Failed to initalize wandb: ")

\* p logged the warning of line 99 with this error text
WarnedWith(p, text) ==
    \E i \in 1..Len(logRecords) :
        /\ logRecords[i].proc = p
        /\ logRecords[i].rec = LogRecord("logger", "WARNING",
                                         "Failed to initalize wandb: " \o text)

\* run_dir lies under root: it is root, a "/", and the rest
UnderRoot(dir, root) ==
    /\ Len(dir) > Len(root)
    /\ SubSeq(dir, 1, Len(root)) = root
    /\ SubSeq(dir, Len(root) + 1, Len(root) + 1) = "/"

ValidResume == cfg.wandb_resume \in {"always", "never"}

ValidRoot ==
    cfg.wandb_workspace_root = "" \/ UnderRoot(output_dir, cfg.wandb_workspace_root)

\* the run name init_wandb derives: run_dir, less the root and its "/"
DerivedNameLen ==
    IF cfg.wandb_workspace_root = "" THEN Len(output_dir)
    ELSE Len(output_dir) - Len(cfg.wandb_workspace_root) - 1

\* C1: when the derived run name is longer than 128 characters and no wandb_id
\* is configured, the name handed to wandb.init is its first 128 characters and
\* the identifier is derived from that truncated name, so both are at most 128
\* characters long.
C1_NameAndIdTruncated ==
    \A i \in 1..Len(wandbInits) :
        LET c == wandbInits[i].rec
        IN  (cfg.wandb_id = "" /\ DerivedNameLen > NameLimit)
            => /\ Len(c.name) = NameLimit
               /\ StartsWith(output_dir,
                      (IF cfg.wandb_workspace_root = "" THEN ""
                       ELSE cfg.wandb_workspace_root \o "/") \o c.name)
               /\ c.id = Replace(c.name, "/", "_")
               /\ Len(c.id) <= NameLimit

\* C3: when wandb.init raises while setup_logging runs on the coordinating
\* process with run=None and use_wandb set, setup_logging returns normally,
\* logs a warning, ends with run None and has written wandb_info.json holding
\* the empty dict.
C3_InitFailureIsNotFatal ==
    \A p \in Procs :
        (TriedInit(p) /\ \E i \in 1..Len(wandbInits) :
                             /\ wandbInits[i].proc = p
                             /\ wandbInits[i].rec.service = "raise")
        => /\ lastCall[p] = [op |-> "setup_logging", exc |-> ""]
           /\ WarnedInitFailure(p)
           /\ run[p] = PyNone
           /\ infoFile = [exists |-> TRUE, content |-> <<>>]
           /\ infoWriters = <<p>>

C3_Witness ==
    /\ TriedInit(Main)
    /\ Len(wandbInits) = 1
    /\ wandbInits[1].rec.service = "raise"
    /\ infoFile.exists

\* C5: only the coordinating process calls wandb.init and writes
\* wandb_info.json, each at most once, however many processes run
\* setup_logging; every other process that ran it has done neither and has its
\* logger at ERROR.
C5_OnlyCoordinatorSetsUp ==
    /\ \A i \in 1..Len(wandbInits) : is_main_process(wandbInits[i].proc)
    /\ \A i \in 1..Len(infoWriters) : is_main_process(infoWriters[i])
    /\ Len(wandbInits) <= 1
    /\ Len(infoWriters) <= 1
    /\ infoFile.exists <=> pc[Main] = "ready"
    /\ \A p \in Procs :
           (~is_main_process(p) /\ pc[p] = "ready")
           => /\ loggerLevel[p] = "ERROR"
              /\ \A i \in 1..Len(logRecords) : logRecords[i].proc # p
    /\ pc[Main] = "ready" => loggerLevel[Main] = "INFO"

C5_Witness ==
    /\ \A p \in Procs : pc[p] = "ready"
    /\ Len(wandbInits) = 1
    /\ wandbInits[1].rec.service = "run"
    /\ infoWriters = <<Main>>
    /\ infoFile.content # <<>>

\* C6: with a non-empty wandb_workspace_root, a run_dir that does not start
\* with root + "/" (run_dir equal to the root included) makes init_wandb fail
\* before wandb.init is called; a run_dir under the root gives the run name
\* run_dir less the root and the "/" after it.
C6_RootPrefix ==
    \A p \in Procs :
        (TriedInit(p) /\ cfg.wandb_workspace_root # "")
        => /\ ~UnderRoot(output_dir, cfg.wandb_workspace_root)
              => /\ wandbInits = <<>>
                 /\ WarnedInitFailure(p)
                 /\ run[p] = PyNone
                 /\ ValidResume
                    => WarnedWith(p, "run_dir " \o output_dir
                                     \o " does not start with root "
                                     \o cfg.wandb_workspace_root)
           /\ (UnderRoot(output_dir, cfg.wandb_workspace_root) /\ ValidResume)
              => /\ Len(wandbInits) = 1
                 /\ LET name == wandbInits[1].rec.name
                        stripped == cfg.wandb_workspace_root \o "/" \o name
                    IN  IF DerivedNameLen <= NameLimit
                        THEN stripped = output_dir
                        ELSE Len(name) = NameLimit /\ StartsWith(output_dir, stripped)

C6_Witness ==
    /\ TriedInit(Main)
    /\ ValidResume
    /\ cfg.wandb_workspace_root = "/runs"
    /\ output_dir = "/runs"
    /\ wandbInits = <<>>
    /\ run[Main] = PyNone

\* C7: the resume policy "always" reaches wandb.init as "allow" and "never" as
\* "never"; "if_not_interactive" and every other value make init_wandb fail
\* before wandb.init is called, whatever the other fields are.
C7_ResumePolicy ==
    /\ \A i \in 1..Len(wandbInits) :
           \/ cfg.wandb_resume = "always" /\ wandbInits[i].rec.resume = "allow"
           \/ cfg.wandb_resume = "never" /\ wandbInits[i].rec.resume = "never"
    /\ \A p \in Procs :
           TriedInit(p)
           => /\ (ValidResume /\ ValidRoot) => Len(wandbInits) = 1
              /\ cfg.wandb_resume = "if_not_interactive"
                 => /\ wandbInits = <<>>
                    /\ WarnedWith(p, "")
                    /\ run[p] = PyNone
              /\ cfg.wandb_resume \notin {"always", "never", "if_not_interactive"}
                 => /\ wandbInits = <<>>
                    /\ WarnedWith(p, "Unknown value for wandb_resume: " \o cfg.wandb_resume)
                    /\ run[p] = PyNone

C7_Witness ==
    /\ TriedInit(Main)
    /\ cfg.wandb_resume = "if_not_interactive"
    /\ ValidRoot
    /\ WarnedWith(Main, "")
    /\ wandbInits = <<>>

\* the wandb.log calls p made
LogCallsOf(p) == SelectSeq(wandbLogs, LAMBDA c : c.proc = p)

\* the records p logged through log_metrics' logger, at a level
MetricRecords(p, level) ==
    SelectSeq(logRecords, LAMBDA r : r.proc = p /\ r.rec.logger = "arg" /\ r.rec.level = level)

\* C2: on the coordinating process every log_metrics call, whatever the values
\* of the mapping, logs the rounded summary once, then calls wandb.log once
\* with exactly the numeric entries and step = completed_steps, and returns
\* normally.
C2_ForwardsNumericEntries ==
    \A p \in Procs :
        is_main_process(p)
        => /\ Len(LogCallsOf(p)) = calls[p]
           /\ Len(MetricRecords(p, "INFO")) = calls[p]
           /\ lastCall[p].exc = ""
           /\ \A i \in 1..Len(wandbLogs) :
                  \A j \in 1..Len(wandbLogs[i].metrics) :
                      wandbLogs[i].metrics[j][2].type \in {"int", "bool", "float"}

\* C4: a log_metrics call on a process that is not the coordinating one makes
\* no logging call and no wandb.log call, whatever the step and the mapping,
\* and returns with the state as it was.
C4_NoOpOffCoordinator ==
    [][\A p \in Procs :
          (~is_main_process(p) /\ calls'[p] # calls[p])
          => /\ logRecords' = logRecords
             /\ wandbLogs' = wandbLogs
             /\ wandbInits' = wandbInits
             /\ infoFile' = infoFile
             /\ infoWriters' = infoWriters
             /\ logDirFiles' = logDirFiles
             /\ loggerLevel' = loggerLevel
             /\ rootLogging' = rootLogging
             /\ libVerbosity' = libVerbosity
             /\ run' = run
             /\ cfg' = cfg
             /\ lastCall'[p] = [op |-> "log_metrics", exc |-> ""]]_vars

C4_Witness ==
    \E p \in Procs :
        /\ ~is_main_process(p)
        /\ calls[p] > 0
        /\ lastCall[p].op = "log_metrics"
        /\ calls[Main] = 0

\* C9: on the coordinating process an exception of wandb.log is caught and
\* logged as an error and log_metrics returns normally: the failure never
\* reaches the caller, and every call that got as far as the summary calls
\* wandb.log again, whatever the earlier calls did.
C9_ForwardingFailureIsCaught ==
    [][\A p \in Procs :
          (is_main_process(p) /\ calls'[p] # calls[p])
          => /\ lastCall'[p].exc # "Error"
             /\ (Len(wandbLogs') = Len(wandbLogs) + 1
                 /\ wandbLogs'[Len(wandbLogs')].service = "raise")
                => /\ lastCall'[p] = [op |-> "log_metrics", exc |-> ""]
                   /\ logRecords'[Len(logRecords')].proc = p
                   /\ logRecords'[Len(logRecords')].rec.level = "ERROR"
                   /\ Len(MetricRecords(p, "ERROR")') = Len(MetricRecords(p, "ERROR")) + 1
             /\ Len(logRecords') > Len(logRecords)
                => /\ Len(wandbLogs') = Len(wandbLogs) + 1
                   /\ wandbLogs'[Len(wandbLogs')].proc = p]_vars

C9_Witness ==
    /\ Len(wandbLogs) >= 2
    /\ wandbLogs[1].service = "raise"
    /\ wandbLogs[1].proc = wandbLogs[2].proc
    /\ lastCall[Main] = [op |-> "log_metrics", exc |-> ""]
    /\ Len(MetricRecords(Main, "ERROR")) >= 1

\* the leaves of d in traversal order, each with the keys that lead to it
RECURSIVE LeafPaths(_, _)
LeafPaths(d, above) ==
    IF d = <<>> THEN <<>>
    ELSE LET k == Head(d)[1]
             v == Head(d)[2]
         IN  (IF v.type = "dict" THEN LeafPaths(v.items, Append(above, k))
              ELSE << <<Append(above, k), v>> >>)
             \o LeafPaths(Tail(d), above)

\* sep.join(keys)
RECURSIVE Join(_, _)
Join(keys, sep) ==
    IF Len(keys) = 1 THEN keys[1] ELSE keys[1] \o sep \o Join(Tail(keys), sep)

\* the dict that holds, for each leaf in turn, its joined path and its value
RECURSIVE Insert(_, _, _)
Insert(m, leaves, sep) ==
    IF leaves = <<>> THEN m
    ELSE Insert(DictSet(m, Join(Head(leaves)[1], sep), Head(leaves)[2]), Tail(leaves), sep)

PathDict(d, sep) == Insert(<<>>, LeafPaths(d, <<>>), sep)

\* C8: called with the default separator, flatten_dict_config returns a
\* mapping none of whose values is a mapping, whose keys are the dot-joined key
\* paths of the leaves in traversal order, each mapped to the value of its leaf.
C8_FlattenDotted ==
    (flat_result # PyNone /\ flat_separator = DefaultSeparator)
    => /\ \A i \in 1..Len(flat_result.items) : flat_result.items[i][2].type # "dict"
       /\ \A i \in 1..Len(flat_result.items) :
              \E j \in 1..Len(LeafPaths(flat_d, <<>>)) :
                  /\ Join(LeafPaths(flat_d, <<>>)[j][1], ".") = flat_result.items[i][1]
                  /\ LeafPaths(flat_d, <<>>)[j][2] = flat_result.items[i][2]
       /\ flat_result.items = PathDict(flat_d, ".")

C8_Witness ==
    /\ flat_d = SpecExample
    /\ flat_separator = "."
    /\ flat_result = PyDict(<< <<"a.b", PyInt(1)>>, <<"a.c.d", PyInt(2)>> >>)

\* C10: for every separator and every nesting depth, each key of the result
\* is the key path of its leaf joined by that separator at every level.
C10_SeparatorAtEveryLevel ==
    flat_result # PyNone => flat_result.items = PathDict(flat_d, flat_separator)

====
